---------------------------- MODULE Spec2Model ----------------------------
(***************************************************************************)
(* Model of package applogger (src/applogger.go): a Logger that writes one *)
(* NDJSON line per Log/LogHTTP call to an append-only file, guarded by a   *)
(* mutex, and terminates the process after a Fatal entry.                  *)
(*                                                                         *)
(* Each goroutine that uses the Logger is a thread of the model; a call to *)
(* Log, LogHTTP or Close is split at the points where another goroutine    *)
(* can be scheduled: waiting for the mutex, the statements of the locked   *)
(* section, and the deferred unlock.                                       *)
(***************************************************************************)
EXTENDS Integers, Sequences, FiniteSets, TLC

(***************************************************************************)
(* Bounds of the model.                                                    *)
(***************************************************************************)
NumThreads == 2   \* goroutines sharing the Logger
MaxCalls   == 3   \* Log/LogHTTP/Close calls issued in one run, all threads
MaxTime    == 1   \* last instant of the wall clock
MaxLoggers == 2   \* Logger instances: the one of NewLogger and the derived

Threads == 1..NumThreads
NoThread == 0

(***************************************************************************)
(* LogLevel and LogLevel.String (applogger.go 53-79).                      *)
(***************************************************************************)
Debug == 0
Info  == 1
Warn  == 2
Error == 3
Fatal == 4

\* Mutant of String: a value outside the declared levels is given the name
\* of the nearest declared level.
StringClamped(l) ==
    CASE l <= Debug -> "DEBUG"
      [] l = Info   -> "INFO"
      [] l = Warn   -> "WARN"
      [] l = Error  -> "ERROR"
      [] OTHER      -> "FATAL"

String(l) ==
    CASE l = Debug -> "DEBUG"
      [] l = Info  -> "INFO"
      [] l = Warn  -> "WARN"
      [] l = Error -> "ERROR"
      [] l = Fatal -> "FATAL"
      [] OTHER     -> "UNKNOWN"

(***************************************************************************)
(* float64 durations: a finite value in milliseconds, or a non-finite one. *)
(***************************************************************************)
Finite(ms) == [class |-> "finite", ms |-> ms]
NaN        == [class |-> "NaN", ms |-> 0]
IsFinite(d) == d.class = "finite"
IsZeroFloat(d) == d.class = "finite" /\ d.ms = 0

(***************************************************************************)
(* Attribute maps: map[string]interface{} with integer values here.        *)
(***************************************************************************)
EmptyMap == [k \in {} |-> 0]
MapOf(k, v) == [x \in {k} |-> v]

\* defaults overlaid by fields: fields win on a collision.
Overlay(defaults, fields) ==
    [k \in DOMAIN defaults \cup DOMAIN fields |->
        IF k \in DOMAIN fields THEN fields[k] ELSE defaults[k]]

(***************************************************************************)
(* context.Context: nil, or the chain of WithValue bindings, the newest    *)
(* first.  A key is an interface value: its dynamic type and its string.   *)
(* A bound value is a scalar or a string-keyed map.                        *)
(***************************************************************************)
NilCtx == [isNil |-> TRUE, chain |-> <<>>]
Background == [isNil |-> FALSE, chain |-> <<>>]
Key(type, name) == [type |-> type, name |-> name]
Scalar(n) == [kind |-> "scalar", n |-> n, m |-> EmptyMap]
FieldSet(m) == [kind |-> "map", n |-> 0, m |-> m]
WithValue(ctx, key, val) ==
    [isNil |-> FALSE, chain |-> <<[key |-> key, val |-> val]>> \o ctx.chain]

NoValue == [kind |-> "nil", n |-> 0, m |-> EmptyMap]

\* ctx.Value(key): the newest binding whose key equals `key` as an interface
\* value (same dynamic type, same string), nil when there is none.
Value(ctx, key) ==
    LET hits == {i \in 1..Len(ctx.chain) :
                    /\ ctx.chain[i].key.type = key.type
                    /\ ctx.chain[i].key.name = key.name}
    IN IF hits = {} THEN NoValue
       ELSE ctx.chain[CHOOSE i \in hits : \A j \in hits : i <= j].val

\* The keys extractContextValues looks up: the three names converted to its
\* function-local type contextKey (applogger.go 224-225).
ContextKeyType == "applogger.extractContextValues.contextKey"
contextKeys == <<"user_id", "request_id", "session_id">>

\* Mutant of extractContextValues: the value is stored without the test
\* `val != nil`, so every key is an attribute.
extractContextValuesNoNilTest(ctx) ==
    [k \in {contextKeys[i] : i \in 1..Len(contextKeys)} |->
        Value(ctx, Key(ContextKeyType, k))]

extractContextValues(ctx) ==
    IF ctx.isNil THEN EmptyMap
    ELSE LET found == {i \in 1..Len(contextKeys) :
                          Value(ctx, Key(ContextKeyType, contextKeys[i])).kind # "nil"}
         IN [k \in {contextKeys[i] : i \in found} |->
                Value(ctx, Key(ContextKeyType, k))]

(***************************************************************************)
(* Caller attribution (applogger.go 189-207).  A symbol name is a sequence *)
(* of characters; a goroutine's stack is a sequence of symbol names, the   *)
(* running function first.                                                 *)
(***************************************************************************)
Unknown == <<"u", "n", "k", "n", "o", "w", "n">>

\* "g.c/a" abbreviates the import path github.com/junkd0g/applogger.
SymGetCallerInfo == <<"g", ".", "c", "/", "a", ".", "g", "C", "I">>
SymLogInternal   == <<"g", ".", "c", "/", "a", ".", "L", ".", "l", "I">>
SymLog           == <<"g", ".", "c", "/", "a", ".", "L", ".", "L", "o", "g">>
SymLogHTTP       == <<"g", ".", "c", "/", "a", ".", "L", ".", "H", "T", "T", "P">>

\* The index of the last '.' of the name, counted from 0; -1 when there is none.
LastDot(fullName) ==
    LET dots == {i \in 1..Len(fullName) : fullName[i] = "."}
    IN IF dots = {} THEN -1
       ELSE (CHOOSE i \in dots : \A j \in dots : j <= i) - 1

\* runtime.Caller(skip) on `stack`, then the split at the last '.'.  A slice
\* with a negative bound panics.
getCallerInfo(stack, skip) ==
    IF skip + 1 > Len(stack)
    THEN [panic |-> FALSE, packageName |-> Unknown, functionName |-> Unknown]
    ELSE LET fullName == stack[skip + 1]
             lastDot == LastDot(fullName)
         IN IF lastDot < 0
            THEN [panic |-> TRUE, packageName |-> <<>>, functionName |-> <<>>]
            ELSE [panic |-> FALSE,
                  packageName |-> SubSeq(fullName, 1, lastDot),
                  functionName |-> SubSeq(fullName, lastDot + 2, Len(fullName))]

(***************************************************************************)
(* LogEntry and its JSON form (applogger.go 82-92).                        *)
(***************************************************************************)
LogEntry(pid, level, pkg, fn, msg, ts, code, duration, attributes) ==
    [PID |-> pid, Level |-> level, Package |-> pkg, Func |-> fn,
     Message |-> msg, Timestamp |-> ts, Code |-> code,
     Duration |-> duration, Attributes |-> attributes]

AlwaysKeys == {"pid", "level", "package", "func", "message", "timestamp"}

\* Mutant of MarshalKeys: code and duration are declared without omitempty.
MarshalKeysNoOmit(e) ==
    AlwaysKeys \cup {"code", "duration"}
      \cup (IF DOMAIN e.Attributes # {} THEN {"attributes"} ELSE {})

\* The keys json.Marshal writes for the entry: the omitempty fields only when
\* they are not the zero value (an empty map counts as empty).
MarshalKeys(e) ==
    AlwaysKeys
      \cup (IF e.Code # 0 THEN {"code"} ELSE {})
      \cup (IF ~IsZeroFloat(e.Duration) THEN {"duration"} ELSE {})
      \cup (IF DOMAIN e.Attributes # {} THEN {"attributes"} ELSE {})

\* The JSON value of an attribute: a number, or an object for a map.
JsonValue(v) == IF v.kind = "scalar" THEN v.n ELSE v.m

\* json.Marshal(entry): an UnsupportedValueError for a float that is not
\* finite, else the object.
jsonMarshal(e) ==
    IF ~IsFinite(e.Duration)
    THEN [err |-> TRUE, obj |-> EmptyMap]
    ELSE [err |-> FALSE,
          obj |-> [k \in MarshalKeys(e) |->
                     CASE k = "pid"        -> e.PID
                       [] k = "level"      -> e.Level
                       [] k = "package"    -> e.Package
                       [] k = "func"       -> e.Func
                       [] k = "message"    -> e.Message
                       [] k = "timestamp"  -> e.Timestamp
                       [] k = "code"       -> e.Code
                       [] k = "duration"   -> e.Duration.ms
                       [] k = "attributes" ->
                            [a \in DOMAIN e.Attributes |->
                                JsonValue(e.Attributes[a])]]]

\* A line of the file: an entry's JSON object, or the text Printf wrote.
JsonLine(obj) == [kind |-> "json", obj |-> obj]
TextLine == [kind |-> "text", obj |-> EmptyMap]

\* time.Now().Format("20060102150405"): the instant cut to whole seconds.
TicksPerSecond == 2
FormatPid(t) == t \div TicksPerSecond

(***************************************************************************)
(* State.                                                                  *)
(***************************************************************************)
VARIABLES
    lgState,     \* "none" before NewLogger, then "ready" or "failed"
    result,      \* what NewLogger returned: the *Logger and the error
    loggers,     \* the Logger instances, the one of NewLogger first
    began,       \* history: the instant each thread's call was made
    fileClosed,  \* lg.file has been closed
    mu,          \* lg.mu: the thread holding it, NoThread when free
    sink,        \* the lines of the log file, oldest first
    now,         \* the wall clock
    pc,          \* each thread's position
    args,        \* each thread's call: the parameters of logInternal
    loc,         \* each thread's locals inside logInternal
    exited,      \* the process has terminated
    exitCode,    \* its exit status
    panicked,    \* it terminated by an unrecovered panic
    issued,      \* history: the number of calls made so far
    ncalls,      \* history: the number of calls each thread has made
    writer,      \* history: for each line of sink, the call that wrote it
    acq,         \* history: the calls that took lg.mu, in lock order
    closeLog,    \* history: what each Close returned, in lock order
    closedAt     \* history: Len(sink) when the file was closed

vars == <<lgState, result, loggers, began, fileClosed, mu, sink, now, pc,
          args, loc, exited, exitCode, panicked, issued, ncalls, writer, acq,
          closeLog, closedAt>>

hist == <<issued, ncalls, writer, acq, closeLog, closedAt>>

\* A call is named by its thread and its rank among that thread's calls.
CallId(t) == <<t, ncalls[t]>>

\* What acq keeps of a call that takes the lock.
Acquired(t) ==
    [id |-> CallId(t), op |-> args[t].op, level |-> args[t].level,
     lg |-> args[t].lg]

\* The Logger made by NewLogger, and no Logger.
Root == 1
NoLogger == 0

\* A Logger instance: its default fields; parent and extra are history, the
\* receiver and the argument of the WithFields call that made it.
Instance(fields, parent, extra) ==
    [fields |-> fields, parent |-> parent, extra |-> extra]

NoArgs == [op |-> "none", lg |-> NoLogger, ctx |-> NilCtx, level |-> 0,
           msg |-> "", code |-> 0, duration |-> Finite(0), skip |-> 0,
           stack |-> <<>>]
NoLoc == [pkgName |-> <<>>, funcName |-> <<>>, pid |-> 0,
          attributes |-> EmptyMap, data |-> EmptyMap, err |-> FALSE]

Init ==
    /\ lgState = "none"
    /\ result = [logger |-> "nil", err |-> "nil"]
    /\ loggers = <<>>
    /\ began = [t \in Threads |-> 0]
    /\ fileClosed = FALSE
    /\ mu = NoThread
    /\ sink = <<>>
    /\ now = 0
    /\ pc = [t \in Threads |-> "idle"]
    /\ args = [t \in Threads |-> NoArgs]
    /\ loc = [t \in Threads |-> NoLoc]
    /\ exited = FALSE
    /\ exitCode = 0
    /\ panicked = FALSE
    /\ issued = 0
    /\ ncalls = [t \in Threads |-> 0]
    /\ writer = <<>>
    /\ acq = <<>>
    /\ closeLog = <<>>
    /\ closedAt = 0

Running == lgState = "ready" /\ ~exited

(***************************************************************************)
(* NewLogger (applogger.go 102-113): os.OpenFile fails or gives the file.  *)
(***************************************************************************)
\* Mutant of OpenAndBuild: the error of os.OpenFile is returned, and the
\* Logger is built and returned all the same.
OpenAndBuildAnyway(openable) ==
    [logger |-> "Logger", err |-> IF openable THEN "nil" ELSE "error"]

\* The values returned: (nil, err) when os.OpenFile fails (104-107), else the
\* Logger and a nil error (108-112).
OpenAndBuild(openable) ==
    IF ~openable
    THEN [logger |-> "nil", err |-> "error"]
    ELSE [logger |-> "Logger", err |-> "nil"]

\* The caller can use what it was given when it is not nil.
NewLogger(openable) ==
    /\ lgState = "none"
    /\ result' = OpenAndBuild(openable)
    /\ lgState' = IF result'.logger = "nil" THEN "failed" ELSE "ready"
    /\ loggers' = IF result'.logger = "nil"
                  THEN <<>>
                  ELSE <<Instance(EmptyMap, NoLogger, EmptyMap)>>
    /\ UNCHANGED <<began, fileClosed, mu, sink, now, pc, args, loc, exited,
                   exitCode, panicked, hist>>

\* The wall clock advances.
Tick ==
    /\ ~exited
    /\ now < MaxTime
    /\ now' = now + 1
    /\ UNCHANGED <<lgState, result, loggers, began, fileClosed, mu, sink, pc,
                   args, loc, exited, exitCode, panicked, hist>>

(***************************************************************************)
(* The public entry points (applogger.go 116-133).  `caller` is the symbol *)
(* name of the function that makes the call.                               *)
(***************************************************************************)
\* A thread that is in no call can make one, while the process runs.
CanCall(t) ==
    /\ Running
    /\ pc[t] = "idle"
    /\ issued < MaxCalls

\* The call is entered with the parameters a; it continues at `first`.
Enter(t, a, first) ==
    /\ args' = [args EXCEPT ![t] = a]
    /\ issued' = issued + 1
    /\ ncalls' = [ncalls EXCEPT ![t] = @ + 1]
    /\ pc' = [pc EXCEPT ![t] = first]
    /\ began' = [began EXCEPT ![t] = now]
    /\ UNCHANGED <<lgState, result, loggers, fileClosed, mu, sink, now, loc,
                   exited, exitCode, panicked, writer, acq, closeLog,
                   closedAt>>

\* Mutant of Log: the skip is 2, the depth of Log itself.
LogSkipTwo(t, lg, ctx, level, message, caller) ==
    /\ CanCall(t)
    /\ lg \in 1..Len(loggers)
    /\ Enter(t, [op |-> "Log", lg |-> lg, ctx |-> ctx, level |-> level,
                 msg |-> message, code |-> 0, duration |-> Finite(0),
                 skip |-> 2,
                 stack |-> <<SymGetCallerInfo, SymLogInternal, SymLog, caller>>],
             "lock")

\* Log: logInternal(ctx, level, message, 0, 0, 3) on the receiver lg.
Log(t, lg, ctx, level, message, caller) ==
    /\ CanCall(t)
    /\ lg \in 1..Len(loggers)
    /\ Enter(t, [op |-> "Log", lg |-> lg, ctx |-> ctx, level |-> level,
                 msg |-> message, code |-> 0, duration |-> Finite(0),
                 skip |-> 3,
                 stack |-> <<SymGetCallerInfo, SymLogInternal, SymLog, caller>>],
             "lock")

\* LogHTTP: logInternal(ctx, level, message, code, duration, 3) on lg.
LogHTTP(t, lg, ctx, level, message, code, duration, caller) ==
    /\ CanCall(t)
    /\ lg \in 1..Len(loggers)
    /\ Enter(t, [op |-> "LogHTTP", lg |-> lg, ctx |-> ctx, level |-> level,
                 msg |-> message, code |-> code, duration |-> duration,
                 skip |-> 3,
                 stack |-> <<SymGetCallerInfo, SymLogInternal, SymLogHTTP,
                             caller>>],
             "lock")

Close(t) ==
    /\ CanCall(t)
    /\ Enter(t, [NoArgs EXCEPT !.op = "Close", !.lg = Root], "closeLock")

(***************************************************************************)
(* WithFields (spec.md 4.4; the method is called by applogger_test.go 144   *)
(* and example/main.go 19, and is not in applogger.go): a new Logger on    *)
(* the receiver's sink and lock, whose default fields are the receiver's   *)
(* overlaid by extra.  The receiver is left as it is.                      *)
(***************************************************************************)
WithFields(t, lg, extra) ==
    /\ Running
    /\ pc[t] = "idle"
    /\ lg \in 1..Len(loggers)
    /\ Len(loggers) < MaxLoggers
    /\ loggers' = Append(loggers,
                         Instance(Overlay(loggers[lg].fields, extra), lg, extra))
    /\ UNCHANGED <<lgState, result, began, fileClosed, mu, sink, now, pc, args,
                   loc, exited, exitCode, panicked, hist>>

(***************************************************************************)
(* sync.Mutex.                                                             *)
(***************************************************************************)
\* Mutant of CanLock: Lock does not wait for the holder.
CanLockAlways(m) == TRUE

CanLock(m) == m = NoThread

(***************************************************************************)
(* logInternal (applogger.go 146-186).                                     *)
(***************************************************************************)
\* Mutant of LogLock: the section is entered without waiting for lg.mu.
LogLockNoWait(t) ==
    /\ ~exited
    /\ pc[t] = "lock"
    /\ mu' = t
    /\ acq' = Append(acq, Acquired(t))
    /\ pc' = [pc EXCEPT ![t] = "attribute"]
    /\ UNCHANGED <<lgState, result, loggers, began, fileClosed, sink, now,
                   args, loc, exited, exitCode, panicked, issued, ncalls,
                   writer, closeLog, closedAt>>

\* lg.mu.Lock() (147).
LogLock(t) ==
    /\ ~exited
    /\ pc[t] = "lock"
    /\ CanLock(mu)
    /\ mu' = t
    /\ acq' = Append(acq, Acquired(t))
    /\ pc' = [pc EXCEPT ![t] = "attribute"]
    /\ UNCHANGED <<lgState, result, loggers, began, fileClosed, sink, now,
                   args, loc, exited, exitCode, panicked, issued, ncalls,
                   writer, closeLog, closedAt>>

\* getCallerInfo, the pid and the context's attributes (151-157).  A panic
\* runs the deferred unlock and, unrecovered, ends the process with status 2.
LogAttribute(t) ==
    /\ ~exited
    /\ pc[t] = "attribute"
    /\ LET ci == getCallerInfo(args[t].stack, args[t].skip)
       IN IF ci.panic
          THEN /\ mu' = NoThread
               /\ exited' = TRUE
               /\ exitCode' = 2
               /\ panicked' = TRUE
               /\ UNCHANGED <<pc, loc>>
          ELSE /\ loc' = [loc EXCEPT ![t] =
                            [@ EXCEPT !.pkgName = ci.packageName,
                                      !.funcName = ci.functionName,
                                      !.pid = FormatPid(now),
                                      !.attributes =
                                          extractContextValues(args[t].ctx)]]
               /\ pc' = [pc EXCEPT ![t] = "entry"]
               /\ UNCHANGED <<mu, exited, exitCode, panicked>>
    /\ UNCHANGED <<lgState, result, loggers, began, fileClosed, sink, now,
                   args, hist>>

\* Mutant of TimeNow: Timestamp is left at the zero time.
TimeZero(clock) == 0

\* time.Now() (167): the instant the wall clock shows.
TimeNow(clock) == clock

\* Mutant of LogMarshal: the error of json.Marshal is not tested, and the
\* call goes on to Println and to the test of the level.
LogMarshalNoReturn(t) ==
    /\ ~exited
    /\ pc[t] = "entry"
    /\ LET entry == LogEntry(loc[t].pid, String(args[t].level), loc[t].pkgName,
                             loc[t].funcName, args[t].msg, TimeNow(now),
                             args[t].code,
                             args[t].duration, loc[t].attributes)
           m == jsonMarshal(entry)
       IN /\ loc' = [loc EXCEPT ![t] = [@ EXCEPT !.data = m.obj, !.err = m.err]]
          /\ pc' = [pc EXCEPT ![t] = "print"]
    /\ UNCHANGED <<lgState, result, loggers, began, fileClosed, mu, sink, now,
                   args, exited, exitCode, panicked, hist>>

\* The entry, stamped with time.Now(), and json.Marshal (160-173).
LogMarshal(t) ==
    /\ ~exited
    /\ pc[t] = "entry"
    /\ LET entry == LogEntry(loc[t].pid, String(args[t].level), loc[t].pkgName,
                             loc[t].funcName, args[t].msg, TimeNow(now),
                             args[t].code,
                             args[t].duration, loc[t].attributes)
           m == jsonMarshal(entry)
       IN /\ loc' = [loc EXCEPT ![t] = [@ EXCEPT !.data = m.obj, !.err = m.err]]
          /\ pc' = [pc EXCEPT ![t] = IF m.err THEN "printErr" ELSE "print"]
    /\ UNCHANGED <<lgState, result, loggers, began, fileClosed, mu, sink, now,
                   args, exited, exitCode, panicked, hist>>

\* Mutants of FileWrite: the line stays in a buffer that is never flushed;
\* the write does not notice that the file is closed.
FileWriteLost(closed, content, line) == content
FileWriteAnyway(closed, content, line) == Append(content, line)

\* log.Logger writing one line to lg.file: os.File.Write on a closed file
\* fails with ErrClosed, which Println and Printf drop.
FileWrite(closed, content, line) ==
    IF closed THEN content ELSE Append(content, line)

\* lg.logger.Printf("Could not marshal log entry: %v", err); return (174-177).
LogPrintErr(t) ==
    /\ ~exited
    /\ pc[t] = "printErr"
    /\ sink' = FileWrite(fileClosed, sink, TextLine)
    /\ writer' = FileWrite(fileClosed, writer, CallId(t))
    /\ pc' = [pc EXCEPT ![t] = "unlock"]
    /\ UNCHANGED <<lgState, result, loggers, began, fileClosed, mu, now, args,
                   loc, exited, exitCode, panicked, issued, ncalls, acq,
                   closeLog, closedAt>>

\* lg.logger.Println(string(data)) (180).
LogPrintln(t) ==
    /\ ~exited
    /\ pc[t] = "print"
    /\ sink' = FileWrite(fileClosed, sink, JsonLine(loc[t].data))
    /\ writer' = FileWrite(fileClosed, writer, CallId(t))
    /\ pc' = [pc EXCEPT ![t] = "fatal"]
    /\ UNCHANGED <<lgState, result, loggers, began, fileClosed, mu, now, args,
                   loc, exited, exitCode, panicked, issued, ncalls, acq,
                   closeLog, closedAt>>

\* Mutant of IsFatal: the comparison is >= instead of ==.
IsFatalOrAbove(level) == level >= Fatal

\* if level == Fatal { os.Exit(1) } (183-185).
IsFatal(level) == level = Fatal

\* Mutant of ExitHolding: the lock is released before os.Exit.
ExitReleasing(m, t) == NoThread

\* os.Exit ends the process at once: deferred calls do not run, so lg.mu
\* stays as it is.
ExitHolding(m, t) == m

LogFatal(t) ==
    /\ ~exited
    /\ pc[t] = "fatal"
    /\ IF IsFatal(args[t].level)
       THEN /\ exited' = TRUE
            /\ exitCode' = 1
            /\ mu' = ExitHolding(mu, t)
            /\ pc' = [pc EXCEPT ![t] = "exit"]
       ELSE /\ pc' = [pc EXCEPT ![t] = "unlock"]
            /\ UNCHANGED <<exited, exitCode, mu>>
    /\ UNCHANGED <<lgState, result, loggers, began, fileClosed, sink, now,
                   args, loc, panicked, hist>>

\* Mutant of LogUnlock: the call returns without the deferred Unlock.
LogReturnLocked(t) ==
    /\ ~exited
    /\ pc[t] = "unlock"
    /\ pc' = [pc EXCEPT ![t] = "idle"]
    /\ args' = [args EXCEPT ![t] = NoArgs]
    /\ loc' = [loc EXCEPT ![t] = NoLoc]
    /\ began' = [began EXCEPT ![t] = 0]
    /\ UNCHANGED <<lgState, result, loggers, fileClosed, mu, sink, now, exited,
                   exitCode, panicked, hist>>

\* The deferred lg.mu.Unlock() and the return to the caller (148).
LogUnlock(t) ==
    /\ ~exited
    /\ pc[t] = "unlock"
    /\ mu' = NoThread
    /\ pc' = [pc EXCEPT ![t] = "idle"]
    /\ args' = [args EXCEPT ![t] = NoArgs]
    /\ loc' = [loc EXCEPT ![t] = NoLoc]
    /\ began' = [began EXCEPT ![t] = 0]
    /\ UNCHANGED <<lgState, result, loggers, fileClosed, sink, now, exited,
                   exitCode, panicked, hist>>

(***************************************************************************)
(* Close (applogger.go 116-123).                                           *)
(***************************************************************************)
\* Mutant of CloseLock: Close does not wait for lg.mu.
CloseLockNoWait(t) ==
    /\ ~exited
    /\ pc[t] = "closeLock"
    /\ mu' = t
    /\ acq' = Append(acq, Acquired(t))
    /\ pc' = [pc EXCEPT ![t] = "closeFile"]
    /\ UNCHANGED <<lgState, result, loggers, began, fileClosed, sink, now,
                   args, loc, exited, exitCode, panicked, issued, ncalls,
                   writer, closeLog, closedAt>>

\* lg.mu.Lock() (117).
CloseLock(t) ==
    /\ ~exited
    /\ pc[t] = "closeLock"
    /\ CanLock(mu)
    /\ mu' = t
    /\ acq' = Append(acq, Acquired(t))
    /\ pc' = [pc EXCEPT ![t] = "closeFile"]
    /\ UNCHANGED <<lgState, result, loggers, began, fileClosed, sink, now,
                   args, loc, exited, exitCode, panicked, issued, ncalls,
                   writer, closeLog, closedAt>>

\* Mutant of FileClose: the file was already closed before the first Close.
FileCloseAlreadyClosed(closed) == "ErrClosed"

\* os.File.Close: nil the first time, ErrClosed on a closed file.
FileClose(closed) == IF closed THEN "ErrClosed" ELSE "nil"

\* if lg.file != nil { return lg.file.Close() }: NewLogger set lg.file and
\* nothing resets it.
CloseFile(t) ==
    /\ ~exited
    /\ pc[t] = "closeFile"
    /\ closeLog' = Append(closeLog, FileClose(fileClosed))
    /\ fileClosed' = TRUE
    /\ closedAt' = IF fileClosed THEN closedAt ELSE Len(sink)
    /\ pc' = [pc EXCEPT ![t] = "closeUnlock"]
    /\ UNCHANGED <<lgState, result, loggers, began, mu, sink, now, args, loc,
                   exited, exitCode, panicked, issued, ncalls, writer, acq>>

CloseUnlock(t) ==
    /\ ~exited
    /\ pc[t] = "closeUnlock"
    /\ mu' = NoThread
    /\ pc' = [pc EXCEPT ![t] = "idle"]
    /\ args' = [args EXCEPT ![t] = NoArgs]
    /\ began' = [began EXCEPT ![t] = 0]
    /\ UNCHANGED <<lgState, result, loggers, fileClosed, sink, now, loc,
                   exited, exitCode, panicked, hist>>

(***************************************************************************)
(* The calls the threads make.                                             *)
(***************************************************************************)
\* "m.r" is the function r of package m.
Callers == {<<"m", ".", "r">>}

\* "g.c/x.T.r" is the method r of the type T of a package with an import
\* path, "m.m.f" a function literal of m.m.
OtherCallers == {<<"g", ".", "c", "/", "x", ".", "T", ".", "r">>,
                 <<"m", ".", "m", ".", "f">>}

\* LogLevel is an int: the declared levels and one value on each side.
Levels == (Debug - 1)..(Fatal + 1)

\* The contexts of example/main.go: a field set stored under the string
\* "applogger_fields", values stored under plain string keys, and both.
MarkerKey == Key("string", "applogger_fields")
ExtraFields == [k \in {"b", "c"} |-> IF k = "b" THEN 3 ELSE 4]
CtxFields == WithValue(Background, MarkerKey, FieldSet(ExtraFields))
CtxPlain == WithValue(Background, Key("string", "user_id"), Scalar(7))
CtxBoth == WithValue(CtxPlain, MarkerKey, FieldSet(MapOf("user_id", 9)))

\* The context of TestLogger_Log: the three names as plain string keys.
PlainKey(name) == Key("string", name)
CtxIds ==
    WithValue(WithValue(WithValue(Background, PlainKey("user_id"), Scalar(7)),
                        PlainKey("request_id"), Scalar(8)),
              PlainKey("session_id"), Scalar(9))
Contexts == {NilCtx, Background, CtxFields, CtxPlain, CtxBoth, CtxIds}

\* The steps of a call in progress: of logInternal, of Close, of either.
LogStep(t) ==
    \/ LogLock(t)
    \/ LogAttribute(t)
    \/ LogMarshal(t)
    \/ LogPrintErr(t)
    \/ LogPrintln(t)
    \/ LogFatal(t)
    \/ LogUnlock(t)

CloseStep(t) ==
    \/ CloseLock(t)
    \/ CloseFile(t)
    \/ CloseUnlock(t)

Step(t) ==
    \/ LogStep(t)
    \/ CloseStep(t)

\* Goroutines sharing one Logger, calling Log, LogHTTP and Close at will.
Next ==
    \/ \E openable \in BOOLEAN : NewLogger(openable)
    \/ \E t \in Threads :
          \/ \E level \in {Info, Fatal}, caller \in Callers :
                Log(t, Root, Background, level, "m", caller)
          \/ \E level \in {Warn, Fatal}, d \in {Finite(125), NaN},
                caller \in Callers :
                LogHTTP(t, Root, Background, level, "m", 404, d, caller)
          \/ Close(t)
          \/ Step(t)

Spec == Init /\ [][Next]_vars

\* One goroutine making its calls one after another, over the range of the
\* arguments.
Main == 1

NextSeq ==
    \/ \E openable \in BOOLEAN : NewLogger(openable)
    \/ \E ctx \in Contexts, level \in {Info, Fatal}, caller \in Callers :
          Log(Main, Root, ctx, level, "m", caller)
    \/ \E level \in Levels, msg \in {"", "m"}, caller \in Callers :
          Log(Main, Root, Background, level, msg, caller)
    \/ \E ctx \in {Background, CtxFields}, code \in {0, 404},
          d \in {Finite(0), Finite(125), NaN}, caller \in Callers :
          LogHTTP(Main, Root, ctx, Warn, "m", code, d, caller)
    \/ Close(Main)
    \/ Step(Main)

SpecSeq == Init /\ [][NextSeq]_vars

\* A symbol name without a '.': a function that is not of a Go package.
DotlessCallers == {<<"f">>}

\* One goroutine calling Log and LogHTTP from functions of several kinds.
NextCallers ==
    \/ \E openable \in BOOLEAN : NewLogger(openable)
    \/ \E caller \in DotlessCallers :
          Log(Main, Root, Background, Info, "m", caller)
    \/ \E caller \in Callers \cup OtherCallers :
          \/ Log(Main, Root, Background, Error, "m", caller)
          \/ \E d \in {Finite(125), NaN} :
                LogHTTP(Main, Root, Background, Error, "m", 404, d, caller)
    \/ LogStep(Main)

SpecCallers == Init /\ [][NextCallers]_vars

\* Goroutines logging while the wall clock advances.
NextClock ==
    \/ \E openable \in BOOLEAN : NewLogger(openable)
    \/ Tick
    \/ \E t \in Threads :
          \/ \E caller \in Callers : Log(t, Root, Background, Info, "m", caller)
          \/ \E caller \in Callers :
                LogHTTP(t, Root, Background, Info, "m", 404, NaN, caller)
          \/ Close(t)
          \/ Step(t)

SpecClock == Init /\ [][NextClock]_vars

\* The field set given to WithFields.
Extras == {MapOf("x", 1)}

\* The main goroutine and a second one.
Pair == {Main, Main + 1}

\* The main goroutine derives Loggers with WithFields at any time and calls
\* LogHTTP; both goroutines call Log, each call through the Logger of
\* NewLogger or through a derived one.
NextFields ==
    \/ \E openable \in BOOLEAN : NewLogger(openable)
    \/ \E lg \in 1..MaxLoggers, extra \in Extras : WithFields(Main, lg, extra)
    \/ \E t \in Pair, lg \in 1..MaxLoggers, caller \in Callers :
          Log(t, lg, Background, Info, "m", caller)
    \/ \E lg \in 1..MaxLoggers, d \in {Finite(125), NaN}, caller \in Callers :
          LogHTTP(Main, lg, Background, Warn, "m", 404, d, caller)
    \/ \E t \in Pair : LogStep(t)

SpecFields == Init /\ [][NextFields]_vars

\* Two goroutines calling Log, LogHTTP and Close, scheduled fairly: a
\* goroutine whose call can take its next step, and stays able to, takes
\* it in the end.  (sync.Mutex promises more: a goroutine waiting at Lock
\* gets the mutex once it has waited a millisecond.)
NextFair ==
    \/ \E openable \in BOOLEAN : NewLogger(openable)
    \/ \E t \in Pair :
          \/ \E level \in {Info, Fatal}, caller \in Callers :
                Log(t, Root, Background, level, "m", caller)
          \/ \E caller \in Callers :
                LogHTTP(t, Root, Background, Warn, "m", 404, NaN, caller)
          \/ Close(t)
          \/ Step(t)

SpecFair ==
    /\ Init
    /\ [][NextFair]_vars
    /\ \A t \in Pair : WF_vars(Step(t))


(***************************************************************************)
(* Properties.                                                             *)
(***************************************************************************)
\* The positions inside the locked section of logInternal and of Close.
LogSection == {"attribute", "entry", "print", "printErr", "fatal", "unlock",
               "exit"}
CloseSection == {"closeFile", "closeUnlock"}
InSection(t) == pc[t] \in LogSection \cup CloseSection
IsLogCall(t) == args[t].op \in {"Log", "LogHTTP"}
AllReturned == lgState = "ready" /\ \A t \in Threads : pc[t] = "idle"
LastLine == sink[Len(sink)]
Lines == 1..Len(sink)

\* The attributes of a line: the object under "attributes", empty when the
\* key is omitted.
LineAttributes(line) ==
    IF line.kind = "json" /\ "attributes" \in DOMAIN line.obj
    THEN line.obj["attributes"]
    ELSE EmptyMap

MapEq(a, b) == DOMAIN a = DOMAIN b /\ \A k \in DOMAIN a : a[k] = b[k]

\* The field set a context carries under the marker key, empty when it
\* carries none.
ContextFields(ctx) ==
    IF ctx.isNil \/ Value(ctx, MarkerKey).kind # "map"
    THEN EmptyMap
    ELSE Value(ctx, MarkerKey).m

\* A Logger made by NewLogger has no default fields.
DefaultFields == EmptyMap

\* The call of thread t has just written its entry as the last line.
WroteLast(t) ==
    /\ Len(sink) > 0
    /\ writer[Len(sink)] = CallId(t)
    /\ LastLine = JsonLine(loc[t].data)
    /\ LastLine.obj["level"] = String(args[t].level)
    /\ LastLine.obj["message"] = args[t].msg

\* C1 (as claimed): once all the non-Fatal Log/LogHTTP calls made on an open
\* Logger have returned, the file holds one line per call, and every line is
\* the serialized entry of exactly one call.
C1_OneEntryLinePerCall ==
    (/\ AllReturned
     /\ ~fileClosed
     /\ \A k \in 1..Len(acq) : acq[k].op # "Close" /\ acq[k].level # Fatal)
    => /\ Len(sink) = issued
       /\ \A i \in Lines : sink[i].kind = "json"
       /\ \A i, j \in Lines : i # j => writer[i] # writer[j]
       /\ \A k \in 1..Len(acq) : \E i \in Lines : writer[i] = acq[k].id

\* What holds instead of the above: one line per call, whole, in the file,
\* be it the call's entry or the text written for an entry that failed to
\* serialize.
OneLinePerCall ==
    (/\ AllReturned
     /\ ~fileClosed
     /\ \A k \in 1..Len(acq) : acq[k].op # "Close" /\ acq[k].level # Fatal)
    => /\ Len(sink) = issued
       /\ \A i, j \in Lines : i # j => writer[i] # writer[j]
       /\ \A k \in 1..Len(acq) : \E i \in Lines : writer[i] = acq[k].id

\* The rank in lock order of the call that wrote a line.
AcqPos(id) == CHOOSE k \in 1..Len(acq) : acq[k].id = id

\* C2: at most one Log/LogHTTP/Close call is inside the locked section, and
\* it holds lg.mu; the lines of the file are in the order in which their
\* calls took the lock, so one thread's lines are in its call order.
C2_MutexAndLockOrder ==
    /\ Cardinality({t \in Threads : InSection(t)}) <= 1
    /\ \A t \in Threads : InSection(t) => mu = t
    /\ \A i \in Lines : \E k \in 1..Len(acq) : acq[k].id = writer[i]
    /\ \A i, j \in Lines : i < j => AcqPos(writer[i]) < AcqPos(writer[j])
    /\ \A i, j \in Lines :
          (i < j /\ writer[i][1] = writer[j][1]) => writer[i][2] < writer[j][2]

\* Two threads have a line each in the file, one of them is still inside the
\* section, and another call waits for the lock.
C2_Witness ==
    /\ Len(sink) >= 2
    /\ writer[1][1] # writer[2][1]
    /\ \E t, u \in Threads : pc[t] = "lock" /\ pc[u] = "unlock" /\ mu = u

\* C3 (as claimed): every Fatal call on an open Logger has its entry in the
\* file when the process is terminated, terminates it with a non-zero
\* status, and so never returns to its caller.
C3_FatalAlwaysExits ==
    \A t \in Threads :
        /\ (pc[t] = "exit" /\ ~fileClosed) => (WroteLast(t) /\ exitCode # 0)
        /\ ~(pc[t] = "unlock" /\ IsLogCall(t) /\ args[t].level = Fatal
                /\ ~fileClosed)

\* C3 (amended): a Fatal call on an open Logger whose entry serializes has
\* its entry as the last line of the file when the process is terminated,
\* and terminates it with status 1; a Fatal call returns to its caller only
\* when its entry failed to serialize.
C3_FatalWrittenBeforeExit ==
    \A t \in Threads :
        /\ (pc[t] = "exit" /\ ~fileClosed)
              => (WroteLast(t) /\ exited /\ exitCode = 1)
        /\ (pc[t] = "unlock" /\ IsLogCall(t) /\ args[t].level = Fatal
                /\ ~fileClosed) => loc[t].err

\* A Fatal LogHTTP call has terminated the process after an earlier line.
C3_Witness ==
    \E t \in Threads :
        /\ pc[t] = "exit" /\ ~fileClosed /\ exited
        /\ args[t].op = "LogHTTP"
        /\ Len(sink) >= 2

C5_ExitOnlyOnFatal ==
    exited => \E t \in Threads : pc[t] = "exit" /\ args[t].level = Fatal

\* A call with the out-of-range level Fatal + 1 has written its line and is
\* returning, after an earlier line.
C5_Witness ==
    \E t \in Threads :
        /\ pc[t] = "unlock" /\ args[t].level = Fatal + 1 /\ ~exited
        /\ ~fileClosed /\ Len(sink) >= 2 /\ WroteLast(t)

\* C6: Close takes effect wholly before or wholly after the locked section
\* of a write: the file is never closed while a Log/LogHTTP call is inside
\* its section, so a call that has passed its write has its whole line in
\* the file when the file was open, and no line when it was closed.
C6_CloseAtomicWithWrite ==
    /\ [](\A t \in Threads :
             pc[t] = "fatal"
               => IF fileClosed
                  THEN \A i \in Lines : writer[i] # CallId(t)
                  ELSE WroteLast(t))
    /\ [][fileClosed' # fileClosed
             => \A t \in Threads : pc[t] \notin LogSection]_vars

\* A Close waits for the lock while a write is in flight.
C6_Witness ==
    \E t, u \in Threads :
        pc[t] = "closeLock" /\ pc[u] = "print" /\ mu = u /\ ~fileClosed

\* C7: Close can be called twice without a panic: the first Close returns
\* no error, and after the second the file is as the first left it.
C7_CloseTwice ==
    /\ ~panicked
    /\ Len(closeLog) >= 1 => closeLog[1] = "nil"
    /\ Len(closeLog) >= 2 => (fileClosed /\ Len(sink) = closedAt)

\* Two Close calls have returned, the second with an error, on a file that
\* holds a line.
C7_Witness ==
    /\ AllReturned
    /\ Len(closeLog) = 2
    /\ closeLog[2] = "ErrClosed"
    /\ Len(sink) >= 1

\* C8: the Logger is open until the first Close and closed ever after, and
\* once it is closed no call adds a line or panics.
C8_ClosedLoggerWritesNothing ==
    /\ []((lgState = "ready" /\ closeLog = <<>>) => ~fileClosed)
    /\ [][fileClosed => (fileClosed' /\ sink' = sink /\ ~panicked')]_vars

\* A non-Fatal Log call made after Close is returning, with the file as
\* Close left it.
C8_Witness ==
    \E t \in Threads :
        /\ pc[t] = "unlock" /\ args[t].op = "Log" /\ args[t].level = Info
        /\ fileClosed /\ ~loc[t].err
        /\ Len(sink) >= 1 /\ Len(sink) = closedAt

\* C9 (as claimed): the attributes of every emitted entry are the logger's
\* default fields overlaid by the context's fields.
C9_AttributesAreOverlay ==
    \A t \in Threads :
        (pc[t] = "fatal" /\ ~fileClosed)
          => MapEq(LineAttributes(LastLine),
                   Overlay(DefaultFields, ContextFields(args[t].ctx)))

\* C10 (as claimed): every key of the field set stored in the context under
\* the marker key is an attribute of the emitted entry, with its value.
C10_MarkerFieldsEmitted ==
    \A t \in Threads :
        (pc[t] = "fatal" /\ ~fileClosed)
          => \A k \in DOMAIN ContextFields(args[t].ctx) :
                /\ k \in DOMAIN LineAttributes(LastLine)
                /\ LineAttributes(LastLine)[k] = ContextFields(args[t].ctx)[k]

\* The value a context holds under the plain string key `name`.
PlainValue(ctx, name) == Value(ctx, PlainKey(name))

\* C11 (as claimed): when the context holds values under the plain string
\* keys "user_id", "request_id" and "session_id", the emitted entry's
\* attributes hold each of those keys with its value.
C11_PlainKeysEmitted ==
    \A t \in Threads :
        (pc[t] = "fatal" /\ ~fileClosed /\ ~args[t].ctx.isNil)
          => \A i \in 1..Len(contextKeys) :
                PlainValue(args[t].ctx, contextKeys[i]).kind = "scalar"
                  => /\ contextKeys[i] \in DOMAIN LineAttributes(LastLine)
                     /\ LineAttributes(LastLine)[contextKeys[i]]
                           = PlainValue(args[t].ctx, contextKeys[i]).n

\* The context carries no fields: it is nil, or it binds nothing.
NoFields(ctx) == ctx.isNil \/ ctx.chain = <<>>

\* The lines of the file written by the call of thread t.
LinesOf(t) == {i \in Lines : writer[i] = CallId(t)}

\* C12 (as claimed): a Log/LogHTTP call on an open Logger with a nil context
\* or a context without fields does not panic and, once past its write, has
\* put exactly one entry in the file, without the attributes key.
C12_NoFieldsOneEntry ==
    /\ ~panicked
    /\ \A t \in Threads :
          (pc[t] \in {"fatal", "unlock"} /\ IsLogCall(t) /\ ~fileClosed
              /\ NoFields(args[t].ctx))
            => /\ Cardinality(LinesOf(t)) = 1
               /\ \A i \in LinesOf(t) :
                     /\ sink[i].kind = "json"
                     /\ "attributes" \notin DOMAIN sink[i].obj

\* C12 (amended): such a call does not panic, and when its entry serializes
\* it has put exactly one entry in the file, without the attributes key.
C12_NoFieldsNoAttributes ==
    /\ ~panicked
    /\ \A t \in Threads :
          (pc[t] \in {"fatal", "unlock"} /\ IsLogCall(t) /\ ~fileClosed
              /\ NoFields(args[t].ctx) /\ ~loc[t].err)
            => /\ Cardinality(LinesOf(t)) = 1
               /\ \A i \in LinesOf(t) :
                     /\ sink[i] = JsonLine(loc[t].data)
                     /\ DOMAIN sink[i].obj \subseteq AlwaysKeys \cup {"code", "duration"}
                     /\ LineAttributes(sink[i]) = EmptyMap

\* A Log call with a nil context has written its entry after an earlier one.
C12_Witness ==
    \E t \in Threads :
        /\ pc[t] = "unlock" /\ args[t].op = "Log" /\ args[t].ctx.isNil
        /\ ~fileClosed /\ ~loc[t].err
        /\ Len(sink) >= 2 /\ WroteLast(t)

\* The default fields a Logger has by the WithFields calls that led to it.
RECURSIVE FieldsOf(_)
FieldsOf(i) ==
    IF loggers[i].parent = NoLogger
    THEN EmptyMap
    ELSE Overlay(FieldsOf(loggers[i].parent), loggers[i].extra)

\* C13 (as claimed): for child made by parent.WithFields(extra) and a key x
\* of extra that parent does not have, parent is left without x, every
\* entry logged through parent lacks x and every entry logged through child
\* has x with the value of extra.
C13_WithFieldsNonMutation ==
    \A c \in 1..Len(loggers) :
        loggers[c].parent # NoLogger
          => \A x \in DOMAIN loggers[c].extra
                        \ DOMAIN FieldsOf(loggers[c].parent) :
                /\ x \notin DOMAIN loggers[loggers[c].parent].fields
                /\ \A t \in Threads :
                      (pc[t] = "fatal" /\ ~fileClosed)
                        => /\ args[t].lg = loggers[c].parent
                                => x \notin DOMAIN LineAttributes(LastLine)
                           /\ args[t].lg = c
                                => /\ x \in DOMAIN LineAttributes(LastLine)
                                   /\ LineAttributes(LastLine)[x]
                                         = loggers[c].extra[x]

C15_CodeAndDurationOmitted ==
    \A t \in Threads :
        (pc[t] = "fatal" /\ ~fileClosed)
          => LET obj == LastLine.obj
                 code == IF args[t].op = "LogHTTP" THEN args[t].code ELSE 0
                 hasDuration == /\ args[t].op = "LogHTTP"
                                /\ args[t].duration # Finite(0)
             IN /\ LastLine.kind = "json"
                /\ ("code" \in DOMAIN obj) <=> (code # 0)
                /\ ("code" \in DOMAIN obj) => obj["code"] = code
                /\ ("duration" \in DOMAIN obj) <=> hasDuration
                /\ ("duration" \in DOMAIN obj)
                      => Finite(obj["duration"]) = args[t].duration
                /\ args[t].op = "Log" => DOMAIN obj \cap {"code", "duration"} = {}

\* A LogHTTP call with code 0 and duration 0.0 has written its entry after
\* an entry that has code 404 and a duration.
C15_Witness ==
    \E t \in Threads :
        /\ pc[t] = "unlock" /\ args[t].op = "LogHTTP" /\ ~fileClosed
        /\ args[t].code = 0 /\ args[t].duration = Finite(0)
        /\ Len(sink) = 2 /\ WroteLast(t)
        /\ sink[1].kind = "json"
        /\ {"code", "duration"} \subseteq DOMAIN sink[1].obj
        /\ sink[1].obj["code"] = 404

\* The name of a level, as the documentation gives it.
LevelName(l) ==
    IF l = 0 THEN "DEBUG"
    ELSE IF l = 1 THEN "INFO"
    ELSE IF l = 2 THEN "WARN"
    ELSE IF l = 3 THEN "ERROR"
    ELSE IF l = 4 THEN "FATAL"
    ELSE "UNKNOWN"

\* C16: the level field of an emitted entry is the name of the level
\* passed: the five declared levels have their upper-case names, every
\* other value, below Debug or above Fatal, has "UNKNOWN", and the call
\* does not fail on it.
C16_LevelString ==
    /\ ~panicked
    /\ \A t \in Threads :
          (pc[t] = "fatal" /\ ~fileClosed)
            => /\ LastLine.kind = "json"
               /\ LastLine.obj["level"] = LevelName(args[t].level)

\* A call with the level Debug - 1 has written an entry whose level is
\* "UNKNOWN", after an entry of a declared level.
C16_Witness ==
    \E t \in Threads :
        /\ pc[t] = "unlock" /\ args[t].level = Debug - 1 /\ ~fileClosed
        /\ Len(sink) = 2 /\ WroteLast(t)
        /\ LastLine.obj["level"] = "UNKNOWN"
        /\ sink[1].kind = "json" /\ sink[1].obj["level"] = "ERROR"

\* C17 (as claimed): a call whose entry fails to serialize writes nothing to
\* the log file and returns: the file holds only serialized entries, and
\* when the call returns the file is as it was when the call took the lock.
C17_MarshalFailureWritesNothing ==
    /\ ~panicked
    /\ \A i \in Lines : sink[i].kind = "json"
    /\ \A t \in Threads :
          (pc[t] = "unlock" /\ IsLogCall(t) /\ loc[t].err) => LinesOf(t) = {}

\* C18: NewLogger returns an error and a nil Logger when the file cannot be
\* opened, and a Logger that is open and a nil error when it can; it never
\* returns both a Logger and an error, or neither, and it does not end the
\* process.
C18_LoggerXorError ==
    lgState # "none"
      => /\ (result.logger = "nil") # (result.err = "nil")
         /\ result.err # "nil" => (lgState = "failed" /\ loggers = <<>>)
         /\ result.logger # "nil"
               => /\ lgState = "ready"
                  /\ Len(loggers) >= 1
                  /\ closeLog = <<>> => ~fileClosed
         /\ lgState = "failed" => (~exited /\ ~panicked /\ sink = <<>>)

\* NewLogger has failed: the caller holds the error and no Logger.
C18_Witness ==
    /\ lgState = "failed"
    /\ result = [logger |-> "nil", err |-> "error"]
    /\ ~exited

\* The timestamp of a line that is an entry.
TimestampOf(i) == sink[i].obj["timestamp"]

\* C19: the entries one thread writes have timestamps that do not decrease
\* in the order of its calls, and the timestamp of an entry is not before
\* the instant its call was made and not after the instant it returns.
C19_TimestampsInOrder ==
    /\ \A i, j \in Lines :
          (/\ i < j
           /\ writer[i][1] = writer[j][1]
           /\ sink[i].kind = "json" /\ sink[j].kind = "json")
            => TimestampOf(i) <= TimestampOf(j)
    /\ \A t \in Threads :
          (pc[t] \in {"print", "fatal", "unlock"} /\ ~loc[t].err)
            => /\ began[t] <= loc[t].data["timestamp"]
               /\ loc[t].data["timestamp"] <= now
    /\ \A t \in Threads :
          (pc[t] \in {"fatal", "unlock"} /\ ~loc[t].err /\ ~fileClosed)
            => TimestampOf(Len(sink)) = loc[t].data["timestamp"]

\* A thread's second call, made after the clock advanced, has written its
\* entry with a later timestamp than its first.
C19_Witness ==
    \E t \in Threads :
        /\ pc[t] = "unlock" /\ ~fileClosed /\ ~loc[t].err
        /\ began[t] > 0
        /\ Len(sink) = 2 /\ WroteLast(t)
        /\ writer[1][1] = t /\ sink[1].kind = "json"
        /\ TimestampOf(1) < TimestampOf(2)

\* The symbol names of the logger's own frames.
InternalFrames == {SymGetCallerInfo, SymLogInternal, SymLog, SymLogHTTP}

\* C20: for Log and for LogHTTP alike, package and func of the emitted
\* entry are the two parts of the name of the function that called Log or
\* LogHTTP, the frame below the entry point: never a frame of the logger,
\* and not "unknown".
C20_ExternalCaller ==
    \A t \in Threads :
        (pc[t] = "fatal" /\ ~fileClosed)
          => LET obj == LastLine.obj
                 external == args[t].stack[4]
             IN /\ LastLine.kind = "json"
                /\ obj["package"] \o <<".">> \o obj["func"] = external
                /\ \A i \in 1..Len(obj["func"]) : obj["func"][i] # "."
                /\ obj["package"] \o <<".">> \o obj["func"] \notin InternalFrames
                /\ obj["package"] # Unknown /\ obj["func"] # Unknown

\* A LogHTTP call from a method has written its entry after the entry of a
\* Log call from the same method, and the two name the same package and
\* func.
C20_Witness ==
    \E t \in Threads :
        /\ pc[t] = "unlock" /\ args[t].op = "LogHTTP" /\ ~fileClosed
        /\ Len(sink) = 2 /\ WroteLast(t)
        /\ sink[1].kind = "json"
        /\ LastLine.obj["package"] = <<"g", ".", "c", "/", "x", ".", "T">>
        /\ LastLine.obj["func"] = <<"r">>
        /\ sink[1].obj["package"] = LastLine.obj["package"]
        /\ sink[1].obj["func"] = LastLine.obj["func"]
        /\ "code" \notin DOMAIN sink[1].obj

\* The characters of a name that are '.'.
Dots(name) == {i \in 1..Len(name) : name[i] = "."}

\* C21 (as claimed): caller attribution never panics; it gives "unknown",
\* "unknown" when there is no frame at the skip depth, and else, for every
\* symbol name, also one without a '.', the two parts of the name at its
\* last '.', the second part without a '.'.
C21_AttributionNeverPanics ==
    /\ ~panicked
    /\ \A t \in Threads :
          (pc[t] = "entry")
            => IF args[t].skip + 1 > Len(args[t].stack)
               THEN loc[t].pkgName = Unknown /\ loc[t].funcName = Unknown
               ELSE LET name == args[t].stack[args[t].skip + 1]
                    IN /\ Dots(loc[t].funcName) = {}
                       /\ Dots(name) # {}
                            => loc[t].pkgName \o <<".">> \o loc[t].funcName
                                 = name
                       /\ Dots(name) = {} => loc[t].funcName = name

\* A line that is the entry of a Fatal call.
IsFatalLine(i) == sink[i].kind = "json" /\ sink[i].obj["level"] = String(Fatal)

\* C22: once the entry of a Fatal call is in the file no line is added, by
\* the thread that wrote it or by any other: the Fatal entry is the last
\* line of the file, also when the process has ended.
C22_FatalEntryIsLast ==
    /\ [](\A i \in Lines : IsFatalLine(i) => i = Len(sink))
    /\ []((exited /\ ~panicked /\ ~fileClosed)
            => (Len(sink) > 0 /\ IsFatalLine(Len(sink))))
    /\ [][(\E i \in Lines : IsFatalLine(i)) => sink' = sink]_vars

\* The process was ended by a Fatal call whose entry is the last of two
\* lines, while another thread's call waits for the lock.
C22_Witness ==
    /\ exited /\ Len(sink) = 2 /\ IsFatalLine(2) /\ ~IsFatalLine(1)
    /\ \E t, u \in Threads :
          /\ pc[t] = "exit" /\ writer[2] = CallId(t)
          /\ pc[u] = "lock" /\ IsLogCall(u)

\* The pid of a line that is an entry.
PidOf(i) == sink[i].obj["pid"]

\* C23 (as claimed): any two entries in the file, of one thread or of two,
\* have different pids, and the pid of an entry is the second of an instant
\* inside its call.
C23_PidUnique ==
    /\ \A i, j \in Lines :
          (i # j /\ sink[i].kind = "json" /\ sink[j].kind = "json")
            => PidOf(i) # PidOf(j)
    /\ \A t \in Threads :
          (pc[t] \in {"entry", "print", "fatal", "unlock"} /\ IsLogCall(t))
            => /\ FormatPid(began[t]) <= loc[t].pid
               /\ loc[t].pid <= FormatPid(now)

\* C24 (as claimed): a Fatal call terminates the process only after its
\* entry was written: when the file was closed and the entry did not reach
\* it, the call does not terminate the process.
C24_ExitOnlyAfterWrite ==
    \A t \in Threads :
        pc[t] = "exit" => (LinesOf(t) # {} /\ WroteLast(t))

\* The call of thread t is a Fatal call whose entry failed to serialize.
FatalFailed(t) == IsLogCall(t) /\ args[t].level = Fatal /\ loc[t].err

\* C26: a Fatal call whose entry fails to serialize returns to its caller
\* with lg.mu released and the process running; the process is terminated
\* by a Fatal call only from the point after Println, with an entry that
\* was serialized.
C26_FatalMarshalFailureReturns ==
    /\ [](\A t \in Threads :
             /\ pc[t] = "exit"
                  => (~loc[t].err /\ args[t].level = Fatal /\ exitCode = 1)
             /\ FatalFailed(t) => pc[t] \in {"printErr", "unlock"})
    /\ [][\A t \in Threads :
             (FatalFailed(t) /\ pc'[t] # pc[t])
               => /\ ~exited'
                  /\ pc[t] = "unlock" => (pc'[t] = "idle" /\ mu' = NoThread)]_vars
    /\ [][(exited' /\ ~exited /\ ~panicked')
             => \E t \in Threads :
                   /\ pc[t] = "fatal" /\ pc'[t] = "exit"
                   /\ ~loc[t].err /\ args[t].level = Fatal]_vars

\* A Fatal LogHTTP call whose duration is not finite has returned: the
\* process runs, the lock is free, and the file has the one line written
\* for the failure.
C26_Witness ==
    /\ AllReturned /\ ~exited /\ mu = NoThread
    /\ Len(acq) = 1 /\ acq[1].op = "LogHTTP" /\ acq[1].level = Fatal
    /\ Len(sink) = 1 /\ sink[1].kind = "text"

\* The call of thread t is one that is to return: a Close, or a Log or
\* LogHTTP call that is not Fatal.
Returning(t) ==
    \/ args[t].op = "Close"
    \/ IsLogCall(t) /\ args[t].level # Fatal

\* C25: under fair scheduling every Close call and every Log/LogHTTP call
\* that is not Fatal, whether its entry serializes or not, gets the lock,
\* ends and gives the lock back, as long as the process runs (it is ended
\* only by a Fatal call); and when no call is in progress the lock is free.
C25_CallsComplete ==
    /\ []((\A t \in Threads : pc[t] = "idle") => mu = NoThread)
    /\ [](exited => \E t \in Threads : pc[t] = "exit" /\ args[t].level = Fatal)
    /\ \A t \in Threads :
          (pc[t] \in {"lock", "closeLock"} /\ Returning(t))
            ~> ((pc[t] \in {"unlock", "closeUnlock"} /\ mu = t) \/ exited)
    /\ \A t \in Threads :
          (pc[t] \in {"unlock", "closeUnlock"})
            ~> ((pc[t] = "idle" /\ mu # t) \/ exited)

\* A Close call and a call whose entry failed to serialize wait for the
\* lock, or hold it, at the same time.
C25_Witness ==
    \E t, u \in Threads :
        /\ pc[t] = "closeLock" /\ pc[u] = "printErr" /\ mu = u
        /\ Len(sink) >= 1

=============================================================================
